---- MODULE Spec2Model ----
(***************************************************************************)
(* StreetCam: the motion-triggered recording controller of main.py and     *)
(* main_2.py.  One behaviour is one session of one of the two scripts.     *)
(* The per-frame motion evidence (contours / motion area) and the outcome  *)
(* of every call to the camera, to cv2.VideoWriter and to cv2.waitKey are  *)
(* inputs chosen by the environment.                                       *)
(*                                                                         *)
(* A frame is a record [id, overlay]: id is its position in capture order  *)
(* (1 is the first frame the camera delivers), overlay says whether the    *)
(* red ROI rectangle has been drawn into its pixels.  A video writer is a  *)
(* record [num, opened, released, writes]: writes is the sequence of       *)
(* frames handed to write(), released counts the calls of release().       *)
(*                                                                         *)
(* main.py fixes the two thresholds at 10 and 20 and the refresh interval  *)
(* at 300, main_2.py reads the thresholds from the command line.  The      *)
(* loop treats them as opaque numbers, so a session here starts with any   *)
(* pair of thresholds in 0..MaxThreshold and the interval MaxInterval.     *)
(* The writer of the continuous recording is taken to open; whether a      *)
(* clip writer opens is an input of the Start that creates it.             *)
(*                                                                         *)
(* Spec is that session; FairSpec adds that the script keeps executing.    *)
(* SpecRefresh varies the refresh interval, SpecRoi the configured ROI and *)
(* the frame size at the start of main_2.py, and SpecBoth runs main.py     *)
(* with main_2.py beside it (in twin) on the same inputs.                  *)
(***************************************************************************)
EXTENDS Integers, Sequences, FiniteSets

\* Bounds of the model.
MaxFrames == 8
MaxThreshold == 2
MaxInterval == 3
MaxDim == 3

Scripts == {"main", "main_2"}
Thresholds == 0..MaxThreshold
Intervals == {MaxInterval}

VARIABLES
    script,              \* which of the two scripts runs
    motion_threshold,    \* MOTION_THRESHOLD / args.motion_threshold
    no_motion_threshold, \* NO_MOTION_THRESHOLD / args.no_motion_threshold
    interval,            \* frames between two background refreshes
    pc,                  \* Starting, Running, Stopping, Stopped, Killed
    nread,               \* frames the camera has delivered so far
    frame_count,
    clip_number,
    motion_detected,
    motion_counter,
    no_motion_counter,
    out,                 \* 0 is None, i > 0 is the writer clips[i]
    clips,               \* every clip writer created so far, in order
    big_clip_out,        \* the writer of the continuous recording
    first_gray_roi,      \* the frame the reference image was derived from
    motions,             \* history: motion signal of every loop frame
    decisions,           \* history: decision taken on every loop frame
    ret,                 \* FALSE once a camera.read() has failed
    key_q,               \* the last cv2.waitKey saw 'q'
    args_roi,            \* the ROI as configured (main_2.py: args.roi)
    frame_size,          \* <<width, height>>
    roi_coords,          \* the ROI in use
    twin                 \* a session of main_2.py fed the inputs of this one

vars == <<script, motion_threshold, no_motion_threshold, interval, pc, nread,
          frame_count, clip_number, motion_detected, motion_counter,
          no_motion_counter, out, clips, big_clip_out, first_gray_roi,
          motions, decisions, ret, key_q, args_roi, frame_size, roi_coords,
          twin>>

NoFrame == [id |-> 0, overlay |-> FALSE]
NoWriter == [num |-> 0, opened |-> FALSE, released |-> 0, writes |-> <<>>]

----------------------------------------------------------------------------
\* The video sink (cv2.VideoWriter).

\* A new writer; ok says whether the file could be opened.  The constructor
\* returns an object either way.
VideoWriter(num, ok) ==
    [num |-> num, opened |-> ok, released |-> 0, writes |-> <<>>]

Write(w, frame) == [w EXCEPT !.writes = Append(@, frame)]

Release(w) == [w EXCEPT !.released = @ + 1]

----------------------------------------------------------------------------
\* The debounce decisions.

\* StartCond with the comparison off by one.
StartCond_AtThreshold(mc, detected) == mc >= motion_threshold /\ ~detected

\* StartCond without the test that no clip is being recorded.
StartCond_NoGuard(mc, detected) == mc > motion_threshold

\* StartCond waiting one frame longer.
StartCond_Late(mc, detected) == mc > motion_threshold + 1 /\ ~detected

StartCond(mc, detected) == mc > motion_threshold /\ ~detected

\* StopCond with the comparison off by one.
StopCond_AtThreshold(nmc, detected) == nmc >= no_motion_threshold /\ detected

StopCond(nmc, detected) == nmc > no_motion_threshold /\ detected

\* OnMotion without the line that advances clip_number.
OnMotion_SameNumber(c, ok) ==
    LET mc == c.motion_counter + 1
        c1 == [c EXCEPT !.motion_counter = mc, !.no_motion_counter = 0]
    IN  IF mc > motion_threshold /\ ~c.motion_detected
        THEN [c1 EXCEPT !.clips = Append(@, [num |-> c.clip_number,
                                             opened |-> ok, released |-> 0,
                                             writes |-> <<>>]),
                        !.out = Len(c.clips) + 1,
                        !.motion_detected = TRUE,
                        !.decision = "Start"]
        ELSE c1

\* Branch taken when the frame shows motion.  c is the controller state.
OnMotion(c, ok) ==
    LET mc == c.motion_counter + 1
        c1 == [c EXCEPT !.motion_counter = mc, !.no_motion_counter = 0]
    IN  IF StartCond(mc, c.motion_detected)
        THEN [c1 EXCEPT !.clip_number = @ + 1,
                        !.clips = Append(@, VideoWriter(c.clip_number + 1, ok)),
                        !.out = Len(c.clips) + 1,
                        !.motion_detected = TRUE,
                        !.decision = "Start"]
        ELSE c1

\* OnNoMotion without the line that clears out.
OnNoMotion_KeepsOut(c) ==
    LET nmc == c.no_motion_counter + 1
        c1 == [c EXCEPT !.no_motion_counter = nmc]
    IN  IF nmc > no_motion_threshold /\ c.motion_detected
        THEN [c1 EXCEPT !.motion_detected = FALSE,
                        !.clips = IF c.out # 0
                                  THEN [@ EXCEPT ![c.out] = [@ EXCEPT !.released = @ + 1]]
                                  ELSE @,
                        !.motion_counter = 0,
                        !.decision = "Stop"]
        ELSE c1

\* Branch taken when the frame shows no motion.
OnNoMotion(c) ==
    LET nmc == c.no_motion_counter + 1
        c1 == [c EXCEPT !.no_motion_counter = nmc]
    IN  IF StopCond(nmc, c.motion_detected)
        THEN [c1 EXCEPT !.motion_detected = FALSE,
                        !.clips = IF c.out # 0
                                  THEN [@ EXCEPT ![c.out] = Release(@)]
                                  ELSE @,
                        !.out = 0,
                        !.motion_counter = 0,
                        !.decision = "Stop"]
        ELSE c1

\* Forwarding of the frame to the two recordings.
WriteCond(detected, o) == detected /\ o # 0

WriteFrame(c, frame) ==
    LET c1 == [c EXCEPT !.big_clip_out = Write(@, frame)]
    IN  IF WriteCond(c1.motion_detected, c1.out)
        THEN [c1 EXCEPT !.clips[c1.out] = Write(@, frame)]
        ELSE c1

\* RefreshDue counting the frames from 0.
RefreshDue_FromZero(fc) == (fc - 1) % interval = 0

\* The background refresh of main.py; main_2.py keeps no reference image.
RefreshDue(fc) == fc % interval = 0

UpdateBackground(c, frame) ==
    IF script = "main" /\ RefreshDue(c.frame_count)
    THEN [c EXCEPT !.first_gray_roi = frame]
    ELSE c

\* cv2.rectangle draws the ROI into the frame in place.
Rectangle(frame) == [frame EXCEPT !.overlay = TRUE]

\* LoopBody with the frame forwarded before the decision is taken.
LoopBody_WriteFirst(c, frame, motion, ok) ==
    LET c0 == [c EXCEPT !.frame_count = @ + 1, !.decision = "None"]
        c1 == [c0 EXCEPT !.big_clip_out = [@ EXCEPT !.writes = Append(@, frame)]]
        c2 == IF c1.motion_detected /\ c1.out # 0
              THEN [c1 EXCEPT !.clips[c1.out] = [@ EXCEPT !.writes = Append(@, frame)]]
              ELSE c1
        c3 == IF motion THEN OnMotion(c2, ok) ELSE OnNoMotion(c2)
    IN  IF script = "main" /\ c3.frame_count % interval = 0
        THEN [c3 EXCEPT !.first_gray_roi = [frame EXCEPT !.overlay = TRUE]]
        ELSE c3

\* One pass through the loop body with a frame that was read successfully.
LoopBody(c, frame, motion, ok) ==
    LET c0 == [c EXCEPT !.frame_count = @ + 1, !.decision = "None"]
        c1 == IF motion THEN OnMotion(c0, ok) ELSE OnNoMotion(c0)
        c2 == WriteFrame(c1, frame)
    IN  UpdateBackground(c2, Rectangle(frame))

----------------------------------------------------------------------------
\* The loop body of main_2.py.

\* Branch taken when the motion area exceeds the sensitivity.
OnMotion2(c, ok) ==
    LET mc == c.motion_counter + 1
        c1 == [c EXCEPT !.motion_counter = mc, !.no_motion_counter = 0]
    IN  IF mc > motion_threshold /\ ~c.motion_detected
        THEN [c1 EXCEPT !.clip_number = @ + 1,
                        !.clips = Append(@, VideoWriter(c.clip_number + 1, ok)),
                        !.out = Len(c.clips) + 1,
                        !.motion_detected = TRUE,
                        !.decision = "Start"]
        ELSE c1

\* OnNoMotion2 with the counter reset moved out of the Stop branch.
OnNoMotion2_ResetsAlways(c) ==
    LET nmc == c.no_motion_counter + 1
        c1 == [c EXCEPT !.no_motion_counter = nmc, !.motion_counter = 0]
    IN  IF nmc > no_motion_threshold /\ c.motion_detected
        THEN [c1 EXCEPT !.motion_detected = FALSE,
                        !.clips = IF c.out # 0
                                  THEN [@ EXCEPT ![c.out] = Release(@)]
                                  ELSE @,
                        !.out = 0,
                        !.decision = "Stop"]
        ELSE c1

\* Branch taken otherwise.  out is cleared inside "if out".
OnNoMotion2(c) ==
    LET nmc == c.no_motion_counter + 1
        c1 == [c EXCEPT !.no_motion_counter = nmc]
    IN  IF nmc > no_motion_threshold /\ c.motion_detected
        THEN [c1 EXCEPT !.motion_detected = FALSE,
                        !.clips = IF c.out # 0
                                  THEN [@ EXCEPT ![c.out] = Release(@)]
                                  ELSE @,
                        !.out = IF c.out # 0 THEN 0 ELSE @,
                        !.motion_counter = 0,
                        !.decision = "Stop"]
        ELSE c1

WriteFrame2(c, frame) ==
    LET c1 == [c EXCEPT !.big_clip_out = Write(@, frame)]
    IN  IF c1.motion_detected /\ c1.out # 0
        THEN [c1 EXCEPT !.clips[c1.out] = Write(@, frame)]
        ELSE c1

\* One pass through the loop body of main_2.py after a successful read.
LoopBody2(c, frame, motion, ok) ==
    LET c0 == [c EXCEPT !.frame_count = @ + 1, !.decision = "None"]
        c1 == IF motion THEN OnMotion2(c0, ok) ELSE OnNoMotion2(c0)
    IN  WriteFrame2(c1, frame)

----------------------------------------------------------------------------
\* The region of interest of main_2.py.

Min(a, b) == IF a <= b THEN a ELSE b
Max(a, b) == IF a >= b THEN a ELSE b

\* validate_roi with the width and height clipped to the frame, not to what
\* is left of it right of x and below y.
validate_roi_ClipsToFrame(roi, frame_width, frame_height) ==
    LET x == Max(0, Min(roi[1], frame_width - 1))
        y == Max(0, Min(roi[2], frame_height - 1))
        w == Max(1, Min(roi[3], frame_width))
        h == Max(1, Min(roi[4], frame_height))
    IN  <<x, y, w, h>>

\* validate_roi with one column and one row too few left for the ROI.
validate_roi_OneShort(roi, frame_width, frame_height) ==
    LET x == Max(0, Min(roi[1], frame_width - 1))
        y == Max(0, Min(roi[2], frame_height - 1))
        w == Max(1, Min(roi[3], frame_width - x - 1))
        h == Max(1, Min(roi[4], frame_height - y - 1))
    IN  <<x, y, w, h>>

validate_roi(roi, frame_width, frame_height) ==
    LET x == Max(0, Min(roi[1], frame_width - 1))
        y == Max(0, Min(roi[2], frame_height - 1))
        w == Max(1, Min(roi[3], frame_width - x))
        h == Max(1, Min(roi[4], frame_height - y))
    IN  <<x, y, w, h>>

----------------------------------------------------------------------------
\* The session.

Controller ==
    [frame_count |-> frame_count, clip_number |-> clip_number,
     motion_detected |-> motion_detected, motion_counter |-> motion_counter,
     no_motion_counter |-> no_motion_counter, out |-> out, clips |-> clips,
     big_clip_out |-> big_clip_out, first_gray_roi |-> first_gray_roi,
     decision |-> "None"]

Config == <<script, motion_threshold, no_motion_threshold, interval,
            args_roi, frame_size>>

\* The state both scripts start from, whatever the configuration.
InitSession ==
    /\ pc = "Starting"
    /\ ret = TRUE
    /\ key_q = FALSE
    /\ nread = 0
    /\ frame_count = 0
    /\ clip_number = 1
    /\ motion_detected = FALSE
    /\ motion_counter = 0
    /\ no_motion_counter = 0
    /\ out = 0
    /\ clips = <<>>
    /\ big_clip_out = NoWriter
    /\ first_gray_roi = NoFrame
    /\ roi_coords = args_roi
    /\ motions = <<>>
    /\ decisions = <<>>
    /\ twin = [pc |-> "Starting", nread |-> 0, c |-> Controller]

\* The default ROI and the frame size both scripts use.
DefaultRoi == <<250, 150, 200, 200>>
DefaultSize == <<640, 480>>

Init ==
    /\ script \in Scripts
    /\ motion_threshold \in Thresholds
    /\ no_motion_threshold \in Thresholds
    /\ interval \in Intervals
    /\ args_roi = DefaultRoi
    /\ frame_size = DefaultSize
    /\ InitSession

\* Everything before the loop: main_2.py clamps the ROI, main.py reads one
\* frame to seed the reference image; both scripts open the continuous
\* recording.
StartupStep ==
    /\ pc = "Starting"
    /\ big_clip_out' = VideoWriter(0, TRUE)
    /\ IF script = "main"
       THEN /\ nread' = nread + 1
            /\ first_gray_roi' = [id |-> nread + 1, overlay |-> FALSE]
            /\ UNCHANGED roi_coords
       ELSE /\ roi_coords' = validate_roi(roi_coords, frame_size[1], frame_size[2])
            /\ UNCHANGED <<nread, first_gray_roi>>
    /\ pc' = "Running"
    /\ UNCHANGED <<Config, ret, key_q, frame_count, clip_number,
                   motion_detected, motion_counter, no_motion_counter, out,
                   clips, motions, decisions>>

Startup ==
    /\ StartupStep
    /\ UNCHANGED twin

\* main.py: the seed read fails, cvtColor raises on the missing frame and
\* the script dies before any writer exists.
SeedReadFails ==
    /\ pc = "Starting"
    /\ script = "main"
    /\ ret' = FALSE
    /\ pc' = "Killed"
    /\ UNCHANGED <<Config, twin, key_q, roi_coords, nread, frame_count,
                   clip_number, motion_detected, motion_counter,
                   no_motion_counter, out, clips, big_clip_out,
                   first_gray_roi, motions, decisions>>

\* NextPc without the break.
NextPc_NoBreak(quit) == "Running"

\* The 'q' test that ends an iteration.
NextPc(quit) == IF quit THEN "Stopping" ELSE "Running"

\* One loop iteration of the running script in which camera.read()
\* succeeds, with the motion signal, the outcome of opening a clip writer
\* and the key test given.
FrameWith(motion, ok, quit) ==
    LET frame == [id |-> nread + 1, overlay |-> FALSE]
        c == IF script = "main"
             THEN LoopBody(Controller, frame, motion, ok)
             ELSE LoopBody2(Controller, frame, motion, ok)
    IN  /\ ret' = TRUE
        /\ nread' = nread + 1
        /\ frame_count' = c.frame_count
        /\ clip_number' = c.clip_number
        /\ motion_detected' = c.motion_detected
        /\ motion_counter' = c.motion_counter
        /\ no_motion_counter' = c.no_motion_counter
        /\ out' = c.out
        /\ clips' = c.clips
        /\ big_clip_out' = c.big_clip_out
        /\ first_gray_roi' = c.first_gray_roi
        /\ motions' = Append(motions, motion)
        /\ decisions' = Append(decisions, c.decision)
        /\ key_q' = quit
        /\ pc' = NextPc(quit)
        /\ UNCHANGED <<Config, roi_coords>>

Frame ==
    /\ pc = "Running"
    /\ Len(motions) < MaxFrames
    /\ \E motion \in BOOLEAN, ok \in BOOLEAN, quit \in BOOLEAN :
         FrameWith(motion, ok, quit)
    /\ UNCHANGED twin

\* ReadFails with the loop going on to the next read.
ReadFails_KeepsRunning ==
    /\ pc = "Running"
    /\ ret' = FALSE
    /\ frame_count' = IF script = "main" THEN frame_count + 1 ELSE frame_count
    /\ pc' = "Running"
    /\ UNCHANGED <<Config, key_q, roi_coords, nread, clip_number,
                   motion_detected, motion_counter, no_motion_counter, out,
                   clips, big_clip_out, first_gray_roi, motions, decisions>>
    /\ UNCHANGED twin

\* One loop iteration in which camera.read() fails: the loop is left.
\* main.py has already counted the iteration, main_2.py has not.
ReadFailsStep ==
    /\ pc = "Running"
    /\ ret' = FALSE
    /\ frame_count' = IF script = "main" THEN frame_count + 1 ELSE frame_count
    /\ pc' = "Stopping"
    /\ UNCHANGED <<Config, key_q, roi_coords, nread, clip_number,
                   motion_detected, motion_counter, no_motion_counter, out,
                   clips, big_clip_out, first_gray_roi, motions, decisions>>

ReadFails ==
    /\ ReadFailsStep
    /\ UNCHANGED twin

\* Ctrl-C while the loop waits for the next frame.  main_2.py catches the
\* exception and goes on to its finally block; main.py has no handler and
\* the interpreter exits.
KeyboardInterrupt ==
    /\ pc = "Running"
    /\ pc' = IF script = "main_2" THEN "Stopping" ELSE "Killed"
    /\ UNCHANGED <<Config, twin, ret, key_q, roi_coords, nread, frame_count,
                   clip_number, motion_detected, motion_counter,
                   no_motion_counter, out, clips, big_clip_out,
                   first_gray_roi, motions, decisions>>

\* The release block after the loop.
ReleaseStep ==
    /\ pc = "Stopping"
    /\ clips' = IF out # 0 THEN [clips EXCEPT ![out] = Release(@)] ELSE clips
    /\ big_clip_out' = Release(big_clip_out)
    /\ pc' = "Stopped"
    /\ UNCHANGED <<Config, ret, key_q, roi_coords, nread, frame_count,
                   clip_number, motion_detected, motion_counter,
                   no_motion_counter, out, first_gray_roi, motions,
                   decisions>>

\* ReleaseAll releasing the clip writer created last, cleared or not.
ReleaseAll_LastWriter ==
    /\ pc = "Stopping"
    /\ clips' = IF clips # <<>>
                THEN [clips EXCEPT ![Len(clips)] = [@ EXCEPT !.released = @ + 1]]
                ELSE clips
    /\ big_clip_out' = [big_clip_out EXCEPT !.released = @ + 1]
    /\ pc' = "Stopped"
    /\ UNCHANGED <<Config, twin, ret, key_q, roi_coords, nread, frame_count,
                   clip_number, motion_detected, motion_counter,
                   no_motion_counter, out, first_gray_roi, motions,
                   decisions>>

ReleaseAll ==
    /\ ReleaseStep
    /\ UNCHANGED twin

Next ==
    \/ Startup
    \/ SeedReadFails
    \/ Frame
    \/ ReadFails
    \/ KeyboardInterrupt
    \/ ReleaseAll

Spec == Init /\ [][Next]_vars

\* The script runs on by itself: once the loop is left, the release block
\* is executed.
FairSpec == Spec /\ WF_vars(ReleaseAll)

\* Sessions with every refresh interval up to MaxInterval, the thresholds
\* held at 1.
InitRefresh ==
    /\ script \in Scripts
    /\ motion_threshold = 1
    /\ no_motion_threshold = 1
    /\ interval \in 1..MaxInterval
    /\ args_roi = DefaultRoi
    /\ frame_size = DefaultSize
    /\ InitSession

SpecRefresh == InitRefresh /\ [][Next]_vars

\* main.py and, in twin, main_2.py, run side by side on the same inputs:
\* the same thresholds, and in every iteration the same read result, motion
\* signal, writer outcome and key.
TwinStartup ==
    twin' = [twin EXCEPT !.pc = "Running",
                         !.c.big_clip_out = VideoWriter(0, TRUE)]

TwinFrame(motion, ok, quit) ==
    LET frame == [id |-> twin.nread + 1, overlay |-> FALSE]
    IN  twin' = [pc |-> NextPc(quit),
                 nread |-> twin.nread + 1,
                 c |-> LoopBody2(twin.c, frame, motion, ok)]

TwinReadFails == twin' = [twin EXCEPT !.pc = "Stopping"]

TwinRelease ==
    twin' = [twin EXCEPT
               !.pc = "Stopped",
               !.c.clips = IF twin.c.out # 0
                           THEN [@ EXCEPT ![twin.c.out] = Release(@)]
                           ELSE @,
               !.c.big_clip_out = Release(@)]

InitBoth ==
    /\ script = "main"
    /\ motion_threshold \in Thresholds
    /\ no_motion_threshold \in Thresholds
    /\ interval \in Intervals
    /\ args_roi = DefaultRoi
    /\ frame_size = DefaultSize
    /\ InitSession

BothStartup == StartupStep /\ TwinStartup

BothFrame ==
    /\ pc = "Running"
    /\ twin.pc = "Running"
    /\ Len(motions) < MaxFrames
    /\ \E motion \in BOOLEAN, ok \in BOOLEAN, quit \in BOOLEAN :
         FrameWith(motion, ok, quit) /\ TwinFrame(motion, ok, quit)

BothReadFail ==
    /\ twin.pc = "Running"
    /\ ReadFailsStep
    /\ TwinReadFails

BothRelease ==
    /\ twin.pc = "Stopping"
    /\ ReleaseStep
    /\ TwinRelease

NextBoth ==
    \/ BothStartup
    \/ BothFrame
    \/ BothReadFail
    \/ BothRelease

SpecBoth == InitBoth /\ [][NextBoth]_vars

\* The start of main_2.py with every ROI, negative and oversized entries
\* included, on every frame size up to MaxDim x MaxDim.
RoiInputs == (-2)..(MaxDim + 1)
FrameSizes == (1..MaxDim) \X (1..MaxDim)

InitRoi ==
    /\ script = "main_2"
    /\ motion_threshold = 0
    /\ no_motion_threshold = 0
    /\ interval = MaxInterval
    /\ args_roi \in RoiInputs \X RoiInputs \X RoiInputs \X RoiInputs
    /\ frame_size \in FrameSizes
    /\ InitSession

NextRoi == Startup

SpecRoi == InitRoi /\ [][NextRoi]_vars

----------------------------------------------------------------------------
\* Vocabulary of the properties.

Last(s) == s[Len(s)]

\* The step processes one frame of the loop.
FrameStep == Len(motions') = Len(motions) + 1

\* The n most recent loop frames exist and all carry the motion signal v.
LastAll(s, n, v) ==
    /\ Len(s) >= n
    /\ \A i \in (Len(s) - n + 1)..Len(s) : s[i] = v

\* Number of frames lo..hi whose motion signal is v.
Count(s, lo, hi, v) == Cardinality({i \in lo..hi : s[i] = v})

\* The latest frame before i on which decision d was taken, 0 if none.
LastBefore(i, d) ==
    LET js == {j \in 1..(i - 1) : decisions[j] = d}
    IN  IF js = {} THEN 0 ELSE CHOOSE j \in js : \A k \in js : k <= j

\* The latest frame before i with a Start or a Stop, 0 if none.
LastChange(i) ==
    IF LastBefore(i, "Start") > LastBefore(i, "Stop")
    THEN LastBefore(i, "Start")
    ELSE LastBefore(i, "Stop")

InSession == pc \in {"Running", "Stopping", "Stopped"}

\* The frame with capture position i, as the camera delivered it.
Captured(i) == [id |-> i, overlay |-> FALSE]

----------------------------------------------------------------------------
\* C1: a frame emits Start if and only if the state before it was Idle and
\* the most recent motion_threshold + 1 frames, this one included, all
\* showed motion.
C1_StartIffConsecutiveMotion ==
    [][FrameStep =>
        ((Last(decisions') = "Start") <=>
            (~motion_detected /\ LastAll(motions', motion_threshold + 1, TRUE)))
    ]_vars

C3_StateAndClipAgree ==
    /\ motion_detected <=> out # 0
    /\ out # 0 => out \in DOMAIN clips
    /\ \A i \in DOMAIN clips : clips[i].released = 0 => i = out
    /\ Cardinality({i \in DOMAIN clips : clips[i].released = 0}) <= 1

C3_Witness ==
    /\ pc = "Running"
    /\ motion_detected
    /\ out = 2
    /\ clips[1].released = 1
    /\ clips[2].released = 0

\* C4: every frame obtained from the camera, the seed frame of the reference
\* image included, has been written to the continuous recording exactly
\* once, in capture order.
C4_ContinuousHasEveryFrame ==
    InSession =>
        /\ Len(big_clip_out.writes) = nread
        /\ \A i \in 1..nread : big_clip_out.writes[i] = Captured(i)

\* C5: when the process has ended, on whatever exit path, every writer that
\* was opened has been released exactly once.
C5_EverySinkClosedOnce ==
    /\ big_clip_out.released <= 1
    /\ \A i \in DOMAIN clips : clips[i].released <= 1
    /\ pc \in {"Stopped", "Killed"} =>
         /\ big_clip_out.opened => big_clip_out.released = 1
         /\ \A i \in DOMAIN clips : clips[i].opened => clips[i].released = 1

\* C6: a frame after whose decision the state is Recording is written once
\* to the current clip and to no other; a frame after whose decision the
\* state is Idle is written to no clip.  The Start frame is the first frame
\* of its clip.
C6_FrameGoesToCurrentClipOnly ==
    [][FrameStep =>
        LET frame == Captured(nread')
            before(i) == IF i \in DOMAIN clips THEN clips[i].writes ELSE <<>>
        IN  /\ \A i \in DOMAIN clips' :
                 clips'[i].writes =
                    IF motion_detected' /\ i = out'
                    THEN Append(before(i), frame)
                    ELSE before(i)
            /\ Last(decisions') = "Start" => clips'[out'].writes = <<frame>>
            /\ Last(decisions') = "Stop" =>
                 \A i \in DOMAIN clips' : clips'[i].writes = before(i)
    ]_vars

C6_Witness ==
    \E i \in DOMAIN clips :
        /\ clips[i].released = 1
        /\ Len(clips[i].writes) >= 2
        /\ out # 0
        /\ out # i
        /\ Len(clips[out].writes) >= 2

\* C7: motion_counter is 0 after a frame without motion, no_motion_counter is
\* 0 after a frame with motion, so one of the two counters is always 0.
C7_CountersResetEachOther ==
    /\ motions # <<>> /\ ~Last(motions) => motion_counter = 0
    /\ motions # <<>> /\ Last(motions) => no_motion_counter = 0
    /\ motion_counter = 0 \/ no_motion_counter = 0

\* C8: the thresholds are strict.  Between the session start or a Stop and
\* the next Start lie at least motion_threshold + 1 frames with motion,
\* between a Start and its Stop at least no_motion_threshold + 1 frames
\* without motion; and with both thresholds 2 the motion sequence
\* F,F,T,T,T,F,F,F gives None,None,None,None,Start,None,None,Stop.
ExampleMotions == <<FALSE, FALSE, TRUE, TRUE, TRUE, FALSE, FALSE, FALSE>>
ExampleDecisions ==
    <<"None", "None", "None", "None", "Start", "None", "None", "Stop">>

C9_StartStopAlternate ==
    /\ \A i \in DOMAIN decisions :
         /\ decisions[i] \in {"None", "Start", "Stop"}
         /\ decisions[i] = "Start" =>
              LastChange(i) = 0 \/ decisions[LastChange(i)] = "Stop"
         /\ decisions[i] = "Stop" =>
              LastChange(i) # 0 /\ decisions[LastChange(i)] = "Start"
    /\ LET n == Len(decisions) + 1
       IN  motion_detected <=>
             (LastChange(n) # 0 /\ decisions[LastChange(n)] = "Start")

C9_Witness ==
    \E i, j, k \in DOMAIN decisions :
        /\ i < j /\ j < k
        /\ decisions[i] = "Start"
        /\ decisions[j] = "Stop"
        /\ decisions[k] = "Start"

\* C10: when the clip writer of a Start cannot be opened, the frame ends in
\* Idle with no current clip, and the sequence number the failed Start took
\* is not taken a second time by the retry: clip_number counts the clips
\* that were opened.
C10_FailedOpenLeavesIdle ==
    /\ out # 0 => clips[out].opened
    /\ motion_detected => out # 0 /\ clips[out].opened
    /\ clip_number = 1 + Cardinality({i \in DOMAIN clips : clips[i].opened})

\* C11: in main.py the reference image is replaced on exactly the loop
\* frames whose 1-based index is a multiple of the interval, whatever the
\* motion signal and the recording state: after n loop frames it stems from
\* the latest such frame, or from the seed frame if there is none.  With
\* interval 3 it stems from loop frame 3 after frames 3, 4, 5 and from loop
\* frame 6 after frames 6 and 7.  (Loop frame k is captured frame k + 1.)
C11_RefreshOnMultiples ==
    (script = "main" /\ InSession) =>
        LET n == Len(motions)
        IN  /\ first_gray_roi.id = 1 + (n - (n % interval))
            /\ interval = 3 =>
                 /\ n \in {0, 1, 2} => first_gray_roi.id = 1
                 /\ n \in {3, 4, 5} => first_gray_roi.id = 4
                 /\ n \in {6, 7} => first_gray_roi.id = 7

C11_Witness ==
    /\ script = "main"
    /\ interval = 3
    /\ Len(motions) = 7
    /\ first_gray_roi.id = 7
    /\ motion_detected
    /\ pc = "Stopped"

\* C12: clip_number is its initial value plus the number of Starts so far,
\* so it moves only on a Start and then by one (a failed read, which adds
\* no decision, leaves it alone); the numbers given to the clips are
\* strictly increasing, so no two clips share one.
C12_ClipNumbersCountStarts ==
    /\ clip_number = 1 + Count(decisions, 1, Len(decisions), "Start")
    /\ Len(clips) = Count(decisions, 1, Len(decisions), "Start")
    /\ \A i \in DOMAIN clips : clips[i].num <= clip_number
    /\ \A i, j \in DOMAIN clips : i < j => clips[i].num < clips[j].num

C12_Witness ==
    /\ Len(clips) >= 2
    /\ clips[1].num = 2
    /\ clips[2].num = 3
    /\ clip_number = 3
    /\ ~ret
    /\ pc = "Stopping"

\* The ROI invariant: the rectangle is not empty and lies within the frame.
ValidRoi(roi, size) ==
    /\ roi[1] >= 0
    /\ roi[2] >= 0
    /\ roi[3] >= 1
    /\ roi[4] >= 1
    /\ roi[1] + roi[3] <= size[1]
    /\ roi[2] + roi[4] <= size[2]

\* C13: whatever four integers are configured and whatever the frame size
\* (at least 1 x 1), the ROI validate_roi returns satisfies x >= 0, y >= 0,
\* w >= 1, h >= 1, x + w <= frame_width and y + h <= frame_height.
C13_ValidatedRoiInFrame ==
    (script = "main_2" /\ pc = "Running") =>
        /\ roi_coords[1] >= 0
        /\ roi_coords[2] >= 0
        /\ roi_coords[3] >= 1
        /\ roi_coords[4] >= 1
        /\ roi_coords[1] + roi_coords[3] <= frame_size[1]
        /\ roi_coords[2] + roi_coords[4] <= frame_size[2]

C13_Witness ==
    /\ pc = "Running"
    /\ frame_size = <<2, 3>>
    /\ args_roi = <<MaxDim + 1, -2, MaxDim + 1, -1>>
    /\ roi_coords = <<1, 0, 1, 1>>

\* C20: validate_roi returns a ROI that satisfies the ROI invariant as it
\* is, and applying it to its own result changes nothing.
C20_ValidateRoiIdentityIdempotent ==
    (script = "main_2" /\ pc = "Running") =>
        /\ ValidRoi(args_roi, frame_size) => roi_coords = args_roi
        /\ validate_roi(roi_coords, frame_size[1], frame_size[2]) = roi_coords

C20_Witness ==
    /\ pc = "Running"
    /\ frame_size = <<MaxDim, MaxDim>>
    /\ args_roi = <<1, 0, MaxDim - 1, MaxDim>>
    /\ roi_coords = args_roi

\* C14: a loop iteration whose read fails writes to no sink, opens no clip,
\* leaves the recording state, the clip number and the reference image as
\* they were and takes the session to the release block; after it no
\* further frame is read or processed.
C14_FailedReadOnlyEndsLoop ==
    [][ /\ (pc = "Running" /\ ~ret') =>
             /\ pc' = "Stopping"
             /\ big_clip_out' = big_clip_out
             /\ clips' = clips
             /\ out' = out
             /\ motion_detected' = motion_detected
             /\ clip_number' = clip_number
             /\ first_gray_roi' = first_gray_roi
             /\ nread' = nread
        /\ ~ret => (~ret' /\ nread' = nread /\ motions' = motions
                    /\ pc' \notin {"Starting", "Running"})
    ]_vars

C14_Witness ==
    /\ ~ret
    /\ pc = "Stopping"
    /\ motion_detected
    /\ out # 0
    /\ clips[out].released = 0
    /\ Len(clips[out].writes) >= 2
    /\ Len(motions) < MaxFrames

\* C15: no writer is released twice and no writer receives a frame, or
\* anything else, once it has been released; a clip that a Stop released is
\* not released again by the release block.
Untouched(w, w2) == w.released >= 1 => w2 = w

C15_NoUseAfterRelease ==
    [][ /\ big_clip_out'.released <= 1
        /\ Untouched(big_clip_out, big_clip_out')
        /\ \A i \in DOMAIN clips' : clips'[i].released <= 1
        /\ \A i \in DOMAIN clips : Untouched(clips[i], clips'[i])
        /\ \A i \in DOMAIN clips' :
             (i \notin DOMAIN clips) => clips'[i].released = 0
    ]_vars

C15_Witness ==
    /\ pc = "Stopped"
    /\ out = 0
    /\ Len(clips) = 2
    /\ clips[1].released = 1
    /\ clips[2].released = 1
    /\ Len(clips[2].writes) >= 1
    /\ big_clip_out.released = 1

\* The recording state before loop frame j, read off the decisions.
RecordingBefore(j) ==
    LastChange(j) # 0 /\ decisions[LastChange(j)] = "Start"

\* Frames lo..hi all carry the motion signal v.
Run(lo, hi, v) == \A k \in lo..hi : motions[k] = v

\* C16: when the state is Idle and motion_threshold + 1 frames in a row show
\* motion, a Start is emitted on one of them; when the state is Recording
\* and no_motion_threshold + 1 frames in a row show none, a Stop is emitted
\* on one of them.
C16_BoundedResponse ==
    \A i \in DOMAIN motions :
        /\ ( /\ i - motion_threshold >= 1
             /\ Run(i - motion_threshold, i, TRUE)
             /\ ~RecordingBefore(i - motion_threshold) )
           => \E k \in (i - motion_threshold)..i : decisions[k] = "Start"
        /\ ( /\ i - no_motion_threshold >= 1
             /\ Run(i - no_motion_threshold, i, FALSE)
             /\ RecordingBefore(i - no_motion_threshold) )
           => \E k \in (i - no_motion_threshold)..i : decisions[k] = "Stop"

C16_Witness ==
    /\ motion_threshold = MaxThreshold
    /\ no_motion_threshold = 1
    /\ Len(motions) = MaxThreshold + 4
    /\ ~motions[1]
    /\ Run(2, MaxThreshold + 2, TRUE)
    /\ Run(MaxThreshold + 3, MaxThreshold + 4, FALSE)
    /\ decisions[MaxThreshold + 2] = "Start"
    /\ decisions[MaxThreshold + 4] = "Stop"
    /\ pc = "Running"

\* Position of the session in its lifetime; Killed is the process gone
\* without its release block.
Rank(p) ==
    CASE p = "Starting" -> 0
      [] p = "Running" -> 1
      [] p = "Stopping" -> 2
      [] p = "Stopped" -> 3
      [] OTHER -> 4

\* C17: the lifetime only moves forward (Starting, Running, Stopping,
\* Stopped).  The iteration that sees 'q' or a failed read leaves the loop;
\* from then on no frame is read, evaluated or written; the frame on which
\* 'q' is seen has been written to the continuous recording, and to the
\* clip if one is open, before the loop is left; and the session reaches
\* Stopped.
C17_LifetimeMovesForward ==
    /\ [][ /\ Rank(pc') >= Rank(pc)
           /\ (pc = "Running" /\ (key_q' \/ ~ret')) => pc' = "Stopping"
           /\ pc = "Stopping" => pc' = "Stopped"
           /\ pc \in {"Stopping", "Stopped"} =>
                /\ nread' = nread
                /\ motions' = motions
                /\ decisions' = decisions
                /\ big_clip_out'.writes = big_clip_out.writes
                /\ \A i \in DOMAIN clips : clips'[i].writes = clips[i].writes
                /\ DOMAIN clips' = DOMAIN clips
           /\ (FrameStep /\ key_q') =>
                /\ Last(big_clip_out'.writes) = Captured(nread')
                /\ out' # 0 => Last(clips'[out'].writes) = Captured(nread')
       ]_vars
    /\ (pc = "Stopping") ~> (pc = "Stopped")

C17_Witness ==
    /\ pc = "Stopped"
    /\ key_q
    /\ ret
    /\ out # 0
    /\ Last(clips[out].writes) = Captured(nread)
    /\ Last(big_clip_out.writes) = Captured(nread)
    /\ Len(motions) < MaxFrames

\* C18: in main.py the reference image stems from a frame as the camera
\* delivered it, the frame that was evaluated and written to the continuous
\* recording, without the ROI rectangle drawn for display.
C18_ReferenceIsCapturedFrame ==
    (script = "main" /\ InSession) =>
        /\ first_gray_roi = Captured(first_gray_roi.id)
        /\ first_gray_roi.id > 1 =>
             \E k \in DOMAIN big_clip_out.writes :
                 big_clip_out.writes[k] = first_gray_roi

\* The loop frames a writer was handed, by their index in the loop; first
\* is the capture position of the first loop frame.
LoopFrames(w, first) == [k \in DOMAIN w.writes |-> w.writes[k].id - first + 1]

\* C19: fed the same thresholds, read results and motion signals, main.py
\* and main_2.py are after every iteration in the same recording state,
\* with the same counters, clip number and clip held or not, have taken the
\* same decision and have written the same loop frames to the continuous
\* recording and to each clip.
C19_ScriptsAgree ==
    /\ twin.pc = pc
    /\ twin.c.motion_detected = motion_detected
    /\ twin.c.motion_counter = motion_counter
    /\ twin.c.no_motion_counter = no_motion_counter
    /\ twin.c.clip_number = clip_number
    /\ (twin.c.out # 0) = (out # 0)
    /\ twin.c.out = out
    /\ twin.c.decision = IF decisions = <<>> THEN "None" ELSE Last(decisions)
    /\ LoopFrames(twin.c.big_clip_out, 1) = LoopFrames(big_clip_out, 2)
    /\ twin.c.big_clip_out.released = big_clip_out.released
    /\ Len(twin.c.clips) = Len(clips)
    /\ \A i \in DOMAIN clips :
         /\ twin.c.clips[i].num = clips[i].num
         /\ twin.c.clips[i].opened = clips[i].opened
         /\ twin.c.clips[i].released = clips[i].released
         /\ LoopFrames(twin.c.clips[i], 1) = LoopFrames(clips[i], 2)

C19_Witness ==
    /\ pc = "Running"
    /\ twin.pc = "Running"
    /\ Len(clips) = 2
    /\ Len(twin.c.clips) = 2
    /\ twin.c.motion_detected
    /\ Len(twin.c.clips[1].writes) >= 2
    /\ motion_counter > 0
    /\ no_motion_counter > 0

====
